---- MODULE Spec2Model ----
(***************************************************************************)
(* Model of the S3 notebook DE/C2_W1_Lab_3_S3.ipynb: the eight functions   *)
(* of the notebook (create_s3_bucket, upload_file_to_s3,                   *)
(* download_object_from_s3, s3_public_access_setup, s3_put_bucket_policy,  *)
(* configure_bucket_versioning, list_objects_in_folder,                    *)
(* list_object_versions, s3_delete_bucket) acting on one bucket of the     *)
(* object store.  Every remote call is one atomic step of the store;       *)
(* s3_delete_bucket issues several calls, so it is a process with a        *)
(* program counter, and another client of the store may act between its    *)
(* calls.                                                                  *)
(***************************************************************************)
EXTENDS Integers, Sequences, FiniteSets, TLC

VARIABLES
  exists,      \* the bucket BUCKET_NAME exists in the store
  versioning,  \* "Unversioned" | "Enabled" | "Suspended"
  store,       \* key -> sequence of entries (versions, delete markers), newest first
  nextVid,     \* the next version id the store hands out
  pab,         \* PublicAccessBlockConfiguration of the bucket
  policy,      \* the bucket policy document (serialized), or NoConfig
  localFile,   \* content of the local download path, or NoFile
  printed,     \* what the last listing function printed
  result,      \* how the last notebook function ended: [op, status, err]
  pc,          \* position inside s3_delete_bucket
  todoV,       \* response['Versions'] still to iterate
  todoM,       \* response['DeleteMarkers'] still to iterate
  calls,       \* remote calls issued by the running / last notebook function
  snap,        \* history: the (key, version id) pairs in the bucket when the purge listed it
  interfered,  \* history: another client acted since s3_delete_bucket started
  late,        \* history: the (key, version id) pairs another client uploaded since then
  uploaded     \* history: key -> payload of the last upload since the last delete on the key

vars == <<exists, versioning, store, nextVid, pab, policy, localFile, printed,
          result, pc, todoV, todoM, calls, snap, interfered, late, uploaded>>

----------------------------------------------------------------------------
(* Bounds of the model *)

\* most entries (versions plus delete markers) the bucket holds at once
MaxEntries == 3
\* most version ids the store hands out in one behaviour
MaxVid == 2

(* The store returns at most one page per listing call: 1000 entries unless *)
(* MaxKeys is passed.  Neither listing call of the notebook passes MaxKeys  *)
(* or follows IsTruncated / NextKeyMarker, so each sees one page.  The page *)
(* size is scaled from 1000 to 2 entries here.                              *)
MaxKeys == 2

----------------------------------------------------------------------------
(* Keys, prefixes, payloads *)

\* object keys are strings: sequences of characters
KeyCsv  == <<"c", "/", "d">>   \* 'csv/data.csv'
KeyFlat == <<"c", "d">>        \* a key starting with 'c' but not with 'c/'
KeyImg  == <<"i", "/", "l">>   \* 'images/AWS-Logo.png'
Keys == {KeyCsv, KeyFlat, KeyImg}

Prefixes == {<<>>, <<"c">>, <<"c", "/">>, <<"d">>}

\* byte order of the characters (their ASCII codes): the store lists keys in it
CharOrd == [ch \in {"/", "c", "d", "i", "l"} |->
              CASE ch = "/" -> 47 [] ch = "c" -> 99 [] ch = "d" -> 100
                [] ch = "i" -> 105 [] ch = "l" -> 108]

Payloads == {"A", "B"}
NoFile == "nofile"
NoConfig == "noconfig"
NoKey == <<>>
\* the version id 'null' of entries written while versioning is not Enabled
NullVid == 0

\* public_access_configuration of the notebook
OpenPab == [BlockPublicAcls |-> FALSE, IgnorePublicAcls |-> FALSE,
            BlockPublicPolicy |-> FALSE, RestrictPublicBuckets |-> FALSE]
\* a new bucket blocks all public access
DefaultPab == [BlockPublicAcls |-> TRUE, IgnorePublicAcls |-> TRUE,
               BlockPublicPolicy |-> TRUE, RestrictPublicBuckets |-> TRUE]
PabConfigs == {OpenPab, DefaultPab}
Policies == {"policy"}

\* versioning_config of the notebook
VersioningConfigs == {"Enabled"}
Regions == {"us-east-1", "eu-west-1"}

----------------------------------------------------------------------------
(* Strings *)

\* prefix_key is a literal prefix of key
StartsWith(key, prefix) ==
  /\ Len(prefix) <= Len(key)
  /\ \A i \in 1..Len(prefix) : key[i] = prefix[i]

RECURSIVE KeyLess(_, _)
\* a sorts strictly before b in byte order
KeyLess(a, b) ==
  IF a = <<>> THEN b # <<>>
  ELSE IF b = <<>> THEN FALSE
  ELSE IF CharOrd[Head(a)] # CharOrd[Head(b)] THEN CharOrd[Head(a)] < CharOrd[Head(b)]
  ELSE KeyLess(Tail(a), Tail(b))

RECURSIVE SortedKeys(_)
\* the keys of S as a sequence in byte order
SortedKeys(S) ==
  IF S = {} THEN <<>>
  ELSE LET m == CHOOSE k \in S : \A o \in S \ {k} : KeyLess(k, o)
       IN <<m>> \o SortedKeys(S \ {m})

\* the first n elements of s
Take(s, n) == SubSeq(s, 1, IF Len(s) < n THEN Len(s) ELSE n)

----------------------------------------------------------------------------
(* The object store: what each remote call does to the bucket *)

EmptyStore == [k \in Keys |-> <<>>]

RECURSIVE SumLen(_, _)
SumLen(st, S) ==
  IF S = {} THEN 0
  ELSE LET k == CHOOSE x \in S : TRUE IN Len(st[k]) + SumLen(st, S \ {k})

\* number of versions and delete markers in the bucket
EntryCount(st) == SumLen(st, Keys)

\* all (key, version id) pairs in the bucket
Pairs(st) == UNION {{<<k, st[k][i].vid>> : i \in 1..Len(st[k])} : k \in Keys}

\* entries of a key without the one carrying version id vid
Without(es, vid) == SelectSeq(es, LAMBDA e : e.vid # vid)

\* a store that gives the null version id whatever the versioning status
NewVid_null(status, next) == NullVid

\* the version id a put or a simple delete gets under the versioning status
NewVid(status, next) == IF status = "Enabled" THEN next ELSE NullVid

\* a store that files the new version behind the older ones
PutObject_oldest(es, status, next, payload) ==
  Without(es, NewVid(status, next))
    \o <<[vid |-> NewVid(status, next), marker |-> FALSE, payload |-> payload]>>

\* PutObject: a new latest version; without versioning Enabled it takes the
\* null version id and replaces the entry that had it
PutObject(es, status, next, payload) ==
  <<[vid |-> NewVid(status, next), marker |-> FALSE, payload |-> payload]>>
    \o Without(es, NewVid(status, next))

\* DeleteObject without a version id (only another client issues it): a delete
\* marker under versioning, a removal in a bucket never versioned
SimpleDelete(es, status, next) ==
  IF status = "Unversioned" THEN <<>>
  ELSE <<[vid |-> NewVid(status, next), marker |-> TRUE, payload |-> NoFile]>>
         \o Without(es, NewVid(status, next))

\* a delete that leaves a delete marker in the place of the entry
DeleteVersion_marker(es, vid) ==
  <<[vid |-> vid, marker |-> TRUE, payload |-> NoFile]>> \o Without(es, vid)

\* DeleteObject with VersionId: removes exactly that entry
DeleteVersion(es, vid) == Without(es, vid)

\* a GET that takes a delete marker for an object
HasCurrent_any(es) == es # <<>>

\* the object a GET or HEAD without version id sees: the latest entry, if it
\* is a version
HasCurrent(es) == es # <<>> /\ ~es[1].marker

\* a GET that returns the oldest version of the key
CurrentPayload_oldest(es) == es[Len(es)].payload

\* the payload a GET without version id returns: that of the latest version
CurrentPayload(es) == es[1].payload

\* one key's entries as the listing shows them
Listed(st, k) ==
  [i \in 1..Len(st[k]) |->
     [Key |-> k, VersionId |-> st[k][i].vid, IsLatest |-> (i = 1),
      marker |-> st[k][i].marker]]

RECURSIVE Concat(_, _)
Concat(st, ks) ==
  IF ks = <<>> THEN <<>> ELSE Listed(st, Head(ks)) \o Concat(st, Tail(ks))

\* ListObjectVersions(Bucket, Prefix): one page of the versions and delete
\* markers under the prefix, by key and newest first
VersionPage(st, prefix) ==
  Take(Concat(st, SortedKeys({k \in Keys : StartsWith(k, prefix)})), MaxKeys)

\* ListObjectsV2(Bucket, Prefix): one page of the current objects' keys
ObjectPage(st, prefix) ==
  Take(SortedKeys({k \in Keys : StartsWith(k, prefix) /\ HasCurrent(st[k])}), MaxKeys)

----------------------------------------------------------------------------
(* Outcomes *)

Errors == {"none", "Transport", "NoSuchBucket", "NoSuchKey", "BucketNotEmpty",
           "IllegalLocationConstraint", "LocalIO"}

\* a call inside try / except Exception: the error is printed
Caught(err) == IF err = "none" THEN "ok" ELSE "reported"

\* a call outside any try: the exception leaves the function
Uncaught(err) == IF err = "none" THEN "ok" ELSE "raised"

Outcome(op, status, err) == [op |-> op, status |-> status, err |-> err]

\* a remote call: its API, its Key and its VersionId
Call(api, key, vid) == [api |-> api, key |-> key, vid |-> vid]

\* the error of a call on the bucket that needs nothing but the bucket
BucketErr(fault) ==
  IF fault THEN "Transport" ELSE IF ~exists THEN "NoSuchBucket" ELSE "none"

Idle == pc = "idle"

TypeOK ==
  /\ exists \in BOOLEAN
  /\ versioning \in {"Unversioned"} \cup VersioningConfigs
  /\ nextVid \in 1..(MaxVid + 1)
  /\ \A k \in Keys : \A i \in 1..Len(store[k]) :
        /\ store[k][i].vid \in 0..MaxVid
        /\ store[k][i].marker \in BOOLEAN
  /\ EntryCount(store) <= MaxEntries
  /\ pab \in PabConfigs
  /\ policy \in Policies \cup {NoConfig}
  /\ localFile \in Payloads \cup {NoFile}
  /\ result.err \in Errors
  /\ result.status \in {"none", "running", "ok", "reported", "raised"}
  /\ pc \in {"idle", "versions", "markers", "bucket"}

Init ==
  /\ exists = FALSE
  /\ versioning = "Unversioned"
  /\ store = EmptyStore
  /\ nextVid = 1
  /\ pab = DefaultPab
  /\ policy = NoConfig
  /\ localFile = NoFile
  /\ printed = <<>>
  /\ result = Outcome("none", "none", "none")
  /\ pc = "idle"
  /\ todoV = <<>>
  /\ todoM = <<>>
  /\ calls = <<>>
  /\ snap = {}
  /\ interfered = FALSE
  /\ late = {}
  /\ uploaded = [k \in Keys |-> NoFile]

----------------------------------------------------------------------------
(* The notebook's functions *)

\* what create_bucket answers: the client sends no CreateBucketConfiguration,
\* which only us-east-1 accepts; there a repeated create of one's own bucket
\* is answered 200, elsewhere it would be BucketAlreadyOwnedByYou
CreateErr(region, fault) ==
  IF fault THEN "Transport"
  ELSE IF region # "us-east-1" THEN "IllegalLocationConstraint"
  ELSE "none"

\* a create that first asks the store whether the bucket is there
create_s3_bucket_probe(region, fault) ==
  /\ Idle
  /\ LET err == CreateErr(region, fault) IN
       /\ result' = Outcome("create_s3_bucket", Caught(err), err)
       /\ exists' = (exists \/ err = "none")
  /\ calls' = <<Call("HeadBucket", NoKey, NullVid), Call("CreateBucket", NoKey, NullVid)>>
  /\ printed' = <<>>
  /\ UNCHANGED <<versioning, store, nextVid, pab, policy, localFile, pc, todoV,
                 todoM, snap, interfered, late, uploaded>>

\* a create that answers a repeated request with a new, empty bucket
create_s3_bucket_fresh(region, fault) ==
  /\ Idle
  /\ LET err == CreateErr(region, fault) IN
       /\ result' = Outcome("create_s3_bucket", Caught(err), err)
       /\ exists' = (exists \/ err = "none")
       /\ store' = IF err = "none" THEN EmptyStore ELSE store
       /\ uploaded' = IF err = "none" THEN [k \in Keys |-> NoFile] ELSE uploaded
  /\ calls' = <<Call("CreateBucket", NoKey, NullVid)>>
  /\ printed' = <<>>
  /\ UNCHANGED <<versioning, nextVid, pab, policy, localFile, pc, todoV,
                 todoM, snap, interfered, late>>

create_s3_bucket(region, fault) ==
  /\ Idle
  /\ LET err == CreateErr(region, fault) IN
       /\ result' = Outcome("create_s3_bucket", Caught(err), err)
       /\ exists' = (exists \/ err = "none")
  /\ calls' = <<Call("CreateBucket", NoKey, NullVid)>>
  /\ printed' = <<>>
  /\ UNCHANGED <<versioning, store, nextVid, pab, policy, localFile, pc, todoV,
                 todoM, snap, interfered, late, uploaded>>

\* a put that keeps what was stored at the key whatever the versioning status
Put_keep(key, payload) ==
  [store EXCEPT ![key] =
     <<[vid |-> NewVid(versioning, nextVid), marker |-> FALSE, payload |-> payload]>> \o @]

\* the bucket after a put of payload at key
Put(key, payload) == [store EXCEPT ![key] = PutObject(@, versioning, nextVid, payload)]

\* room for one more put at key within the bounds of the model
CanPut(key) ==
  /\ EntryCount(Put(key, "A")) <= MaxEntries
  /\ versioning = "Enabled" => nextVid <= MaxVid

\* an upload that does not notice an unreadable local file
UploadErr_unread(readable, fault) == BucketErr(fault)

UploadErr(readable, fault) ==
  IF ~readable THEN "LocalIO" ELSE BucketErr(fault)

upload_file_to_s3(key, payload, readable, fault) ==
  /\ Idle
  /\ exists => CanPut(key)
  /\ LET err == UploadErr(readable, fault) IN
       /\ result' = Outcome("upload_file_to_s3", Caught(err), err)
       /\ calls' = IF readable THEN <<Call("PutObject", key, NullVid)>> ELSE <<>>
       /\ IF err = "none"
            THEN /\ store' = Put(key, payload)
                 /\ nextVid' = IF versioning = "Enabled" THEN nextVid + 1 ELSE nextVid
                 /\ uploaded' = [uploaded EXCEPT ![key] = payload]
            ELSE UNCHANGED <<store, nextVid, uploaded>>
  /\ printed' = <<>>
  /\ UNCHANGED <<exists, versioning, pab, policy, localFile, pc, todoV, todoM,
                 snap, interfered, late>>

\* what download_file finds at the key
DownloadErr(key, fault) ==
  IF BucketErr(fault) # "none" THEN BucketErr(fault)
  ELSE IF ~HasCurrent(store[key]) THEN "NoSuchKey"
  ELSE "none"

\* a download that takes the version it returns out of the bucket
download_object_from_s3_take(key, fault) ==
  /\ Idle
  /\ LET err == DownloadErr(key, fault) IN
       /\ result' = Outcome("download_object_from_s3", Caught(err), err)
       /\ localFile' = IF err = "none" THEN CurrentPayload(store[key]) ELSE localFile
       /\ store' = IF err = "none" THEN [store EXCEPT ![key] = Tail(@)] ELSE store
  /\ calls' = <<Call("GetObject", key, NullVid)>>
  /\ printed' = <<>>
  /\ UNCHANGED <<exists, versioning, nextVid, pab, policy, pc, todoV,
                 todoM, snap, interfered, late, uploaded>>

download_object_from_s3(key, fault) ==
  /\ Idle
  /\ LET err == DownloadErr(key, fault) IN
       /\ result' = Outcome("download_object_from_s3", Caught(err), err)
       /\ localFile' = IF err = "none" THEN CurrentPayload(store[key]) ELSE localFile
  /\ calls' = <<Call("GetObject", key, NullVid)>>
  /\ printed' = <<>>
  /\ UNCHANGED <<exists, versioning, store, nextVid, pab, policy, pc, todoV,
                 todoM, snap, interfered, late, uploaded>>

\* a setup that updates the first toggle and keeps the other three
s3_public_access_setup_merge(config, fault) ==
  /\ Idle
  /\ LET err == BucketErr(fault) IN
       /\ result' = Outcome("s3_public_access_setup", Uncaught(err), err)
       /\ pab' = IF err = "none"
                   THEN [pab EXCEPT !.BlockPublicAcls = config.BlockPublicAcls]
                   ELSE pab
  /\ calls' = <<Call("PutPublicAccessBlock", NoKey, NullVid)>>
  /\ printed' = <<>>
  /\ UNCHANGED <<exists, versioning, store, nextVid, policy, localFile, pc,
                 todoV, todoM, snap, interfered, late, uploaded>>

s3_public_access_setup(config, fault) ==
  /\ Idle
  /\ LET err == BucketErr(fault) IN
       /\ result' = Outcome("s3_public_access_setup", Uncaught(err), err)
       /\ pab' = IF err = "none" THEN config ELSE pab
  /\ calls' = <<Call("PutPublicAccessBlock", NoKey, NullVid)>>
  /\ printed' = <<>>
  /\ UNCHANGED <<exists, versioning, store, nextVid, policy, localFile, pc,
                 todoV, todoM, snap, interfered, late, uploaded>>

s3_put_bucket_policy(doc, fault) ==
  /\ Idle
  /\ LET err == BucketErr(fault) IN
       /\ result' = Outcome("s3_put_bucket_policy", Uncaught(err), err)
       /\ policy' = IF err = "none" THEN doc ELSE policy
  /\ calls' = <<Call("PutBucketPolicy", NoKey, NullVid)>>
  /\ printed' = <<>>
  /\ UNCHANGED <<exists, versioning, store, nextVid, pab, localFile, pc, todoV,
                 todoM, snap, interfered, late, uploaded>>

configure_bucket_versioning(status, fault) ==
  /\ Idle
  /\ LET err == BucketErr(fault) IN
       /\ result' = Outcome("configure_bucket_versioning", Uncaught(err), err)
       /\ versioning' = IF err = "none" THEN status ELSE versioning
  /\ calls' = <<Call("PutBucketVersioning", NoKey, NullVid)>>
  /\ printed' = <<>>
  /\ UNCHANGED <<exists, store, nextVid, pab, policy, localFile, pc, todoV,
                 todoM, snap, interfered, late, uploaded>>

\* response['Versions'] and response['DeleteMarkers'] of one page
VersionsOf(page) == SelectSeq(page, LAMBDA e : ~e.marker)
DeleteMarkersOf(page) == SelectSeq(page, LAMBDA e : e.marker)

\* the lines list_object_versions prints for one entry
PrintedVersion(e) == [Key |-> e.Key, VersionId |-> e.VersionId, IsLatest |-> e.IsLatest]

\* what list_objects_in_folder prints: the keys of response['Contents'], or
\* the 'No objects found' line and no key
list_objects_in_folder(prefix, fault) ==
  /\ Idle
  /\ LET err == BucketErr(fault) IN
       /\ result' = Outcome("list_objects_in_folder", Uncaught(err), err)
       /\ printed' = IF err = "none" THEN ObjectPage(store, prefix) ELSE <<>>
  /\ calls' = <<Call("ListObjectsV2", NoKey, NullVid)>>
  /\ UNCHANGED <<exists, versioning, store, nextVid, pab, policy, localFile, pc,
                 todoV, todoM, snap, interfered, late, uploaded>>

\* the loop of list_object_versions prints response['Versions'] only
PrintedVersions(page) ==
  [i \in 1..Len(VersionsOf(page)) |-> PrintedVersion(VersionsOf(page)[i])]

list_object_versions(prefix, fault) ==
  /\ Idle
  /\ LET err == BucketErr(fault) IN
       /\ result' = Outcome("list_object_versions", Uncaught(err), err)
       /\ printed' = IF err = "none" THEN PrintedVersions(VersionPage(store, prefix))
                                    ELSE <<>>
  /\ calls' = <<Call("ListObjectVersions", NoKey, NullVid)>>
  /\ UNCHANGED <<exists, versioning, store, nextVid, pab, policy, localFile, pc,
                 todoV, todoM, snap, interfered, late, uploaded>>

----------------------------------------------------------------------------
(* s3_delete_bucket: one step per remote call *)

Running == Outcome("s3_delete_bucket", "running", "none")

\* a function that requests the bucket deletion before the loop over the
\* delete markers
NextPc_early(tv, tm) == IF tv # <<>> THEN "versions" ELSE "bucket"

\* where the function goes with these entries left to iterate
NextPc(tv, tm) ==
  IF tv # <<>> THEN "versions" ELSE IF tm # <<>> THEN "markers" ELSE "bucket"

\* the exception of a call leaves s3_delete_bucket: no later call is issued
Raise(err) ==
  /\ result' = Outcome("s3_delete_bucket", Uncaught(err), err)
  /\ pc' = "idle"
  /\ todoV' = <<>>
  /\ todoM' = <<>>
  /\ snap' = {}
  /\ interfered' = FALSE
  /\ late' = {}

\* delete_objects = True: list_object_versions(Bucket=bucket_name)
DeleteBucketList(fault) ==
  /\ Idle
  /\ calls' = <<Call("ListObjectVersions", NoKey, NullVid)>>
  /\ printed' = <<>>
  /\ LET err == BucketErr(fault) IN
       IF err # "none"
         THEN Raise(err)
         ELSE LET page == VersionPage(store, <<>>) IN
                /\ todoV' = VersionsOf(page)
                /\ todoM' = DeleteMarkersOf(page)
                /\ pc' = NextPc(VersionsOf(page), DeleteMarkersOf(page))
                /\ snap' = Pairs(store)
                /\ interfered' = FALSE
                /\ late' = {}
                /\ result' = Running
  /\ UNCHANGED <<exists, versioning, store, nextVid, pab, policy, localFile, uploaded>>

\* delete_objects = False: straight to the bucket deletion
DeleteBucketSkip ==
  /\ Idle
  /\ calls' = <<>>
  /\ printed' = <<>>
  /\ interfered' = FALSE
  /\ late' = {}
  /\ snap' = {}
  /\ pc' = "bucket"
  /\ result' = Running
  /\ UNCHANGED <<exists, versioning, store, nextVid, pab, policy, localFile,
                 todoV, todoM, uploaded>>

\* delete_object(Bucket, Key, VersionId) of one listed entry
DeleteListed(e, fault) ==
  /\ calls' = Append(calls, Call("DeleteObject", e.Key, e.VersionId))
  /\ LET err == BucketErr(fault) IN
       IF err # "none"
         THEN Raise(err) /\ UNCHANGED <<store, uploaded>>
         ELSE /\ store' = [store EXCEPT ![e.Key] = DeleteVersion(@, e.VersionId)]
              /\ UNCHANGED <<snap, interfered, late>>
              /\ uploaded' = [uploaded EXCEPT ![e.Key] = NoFile]
              /\ result' = Running
              /\ IF pc = "versions"
                   THEN todoV' = Tail(todoV) /\ todoM' = todoM
                   ELSE todoM' = Tail(todoM) /\ todoV' = todoV
              /\ pc' = NextPc(todoV', todoM')
  /\ UNCHANGED <<exists, versioning, nextVid, pab, policy, localFile, printed>>

\* the loop over response['Versions']
DeleteBucketVersion(fault) ==
  /\ pc = "versions"
  /\ DeleteListed(Head(todoV), fault)

\* the loop over response['DeleteMarkers']
DeleteBucketMarker(fault) ==
  /\ pc = "markers"
  /\ DeleteListed(Head(todoM), fault)

\* a store that deletes a bucket without looking at its content
DeleteBucketErr_unchecked(fault) == BucketErr(fault)

\* what delete_bucket answers
DeleteBucketErr(fault) ==
  IF BucketErr(fault) # "none" THEN BucketErr(fault)
  ELSE IF EntryCount(store) > 0 THEN "BucketNotEmpty"
  ELSE "none"

\* delete_bucket(Bucket=bucket_name) and the return
DeleteBucketCall(fault) ==
  /\ pc = "bucket"
  /\ calls' = Append(calls, Call("DeleteBucket", NoKey, NullVid))
  /\ LET err == DeleteBucketErr(fault) IN
       /\ result' = Outcome("s3_delete_bucket", Uncaught(err), err)
       /\ IF err = "none"
            THEN /\ exists' = FALSE
                 /\ versioning' = "Unversioned"
                 /\ pab' = DefaultPab
                 /\ policy' = NoConfig
            ELSE UNCHANGED <<exists, versioning, pab, policy>>
  /\ pc' = "idle"
  /\ snap' = {}
  /\ interfered' = FALSE
  /\ late' = {}
  /\ UNCHANGED <<store, nextVid, localFile, printed, todoV, todoM, uploaded>>

----------------------------------------------------------------------------
(* Another client of the same bucket *)

\* a put by another client
OtherUpload(key, payload) ==
  /\ exists
  /\ CanPut(key)
  /\ store' = Put(key, payload)
  /\ nextVid' = IF versioning = "Enabled" THEN nextVid + 1 ELSE nextVid
  /\ uploaded' = [uploaded EXCEPT ![key] = payload]
  /\ interfered' = (interfered \/ ~Idle)
  /\ late' = IF Idle THEN late
                     ELSE late \cup {<<key, NewVid(versioning, nextVid)>>}
  /\ UNCHANGED <<exists, versioning, pab, policy, localFile, printed, result, pc,
                 todoV, todoM, calls, snap>>

\* the bucket after a delete of key without version id
Deleted(key) == [store EXCEPT ![key] = SimpleDelete(@, versioning, nextVid)]

\* a delete without version id by another client
OtherDelete(key) ==
  /\ exists
  /\ EntryCount(Deleted(key)) <= MaxEntries
  /\ versioning = "Enabled" => nextVid <= MaxVid
  /\ store' = Deleted(key)
  /\ nextVid' = IF versioning = "Enabled" THEN nextVid + 1 ELSE nextVid
  /\ uploaded' = [uploaded EXCEPT ![key] = NoFile]
  /\ interfered' = (interfered \/ ~Idle)
  /\ late' = late \cap Pairs(Deleted(key))
  /\ UNCHANGED <<exists, versioning, pab, policy, localFile, printed, result, pc,
                 todoV, todoM, calls, snap>>

----------------------------------------------------------------------------

\* create_s3_bucket, upload_file_to_s3 and configure_bucket_versioning on the
\* keys K with the faults F and local files readable as in R
Builds(K, F, R) ==
  \/ \E r \in Regions, f \in F : create_s3_bucket(r, f)
  \/ \E key \in K, p \in Payloads, rd \in R, f \in F :
        upload_file_to_s3(key, p, rd, f)
  \/ \E s \in VersioningConfigs, f \in F : configure_bucket_versioning(s, f)

\* s3_delete_bucket, call by call
Deletes(F) ==
  \/ \E f \in F : DeleteBucketList(f)
  \/ DeleteBucketSkip
  \/ \E f \in F : DeleteBucketVersion(f)
  \/ \E f \in F : DeleteBucketMarker(f)
  \/ \E f \in F : DeleteBucketCall(f)

\* the other client
Others(K) ==
  \/ \E key \in K, p \in Payloads : OtherUpload(key, p)
  \/ \E key \in K : OtherDelete(key)

\* download_object_from_s3 on the keys K with the faults F
Downloads(K, F) == \E key \in K, f \in F : download_object_from_s3(key, f)

\* the listing functions with the faults F
Lists(F) ==
  \/ \E x \in Prefixes, f \in F : list_objects_in_folder(x, f)
  \/ \E x \in Prefixes, f \in F : list_object_versions(x, f)

\* the functions that configure the bucket
Configures(F) ==
  \/ \E c \in PabConfigs, f \in F : s3_public_access_setup(c, f)
  \/ \E d \in Policies, f \in F : s3_put_bucket_policy(d, f)

Next ==
  \/ Builds(Keys, BOOLEAN, BOOLEAN)
  \/ Deletes(BOOLEAN)
  \/ Others(Keys)
  \/ Downloads(Keys, BOOLEAN)
  \/ Lists(BOOLEAN)
  \/ Configures(BOOLEAN)

Spec == Init /\ [][Next]_vars

\* the notebook and the other client changing the objects of two keys
StoreKeys == {KeyCsv, KeyImg}
NextStore == Builds(StoreKeys, BOOLEAN, BOOLEAN) \/ Deletes(BOOLEAN) \/ Others(StoreKeys)
SpecStore == Init /\ [][NextStore]_vars

\* downloads from the buckets that uploads, versioning and the other
\* client's deletes produce
NextDownload ==
  \/ Builds(StoreKeys, {FALSE}, {TRUE})
  \/ \E key \in StoreKeys : OtherDelete(key)
  \/ Downloads(StoreKeys, BOOLEAN)
SpecDownload == Init /\ [][NextDownload]_vars

\* listings of the buckets that uploads, versioning and the other client's
\* deletes produce
NextList ==
  \/ Builds(Keys, {FALSE}, {TRUE})
  \/ \E key \in Keys : OtherDelete(key)
  \/ Lists(BOOLEAN)
SpecList == Init /\ [][NextList]_vars

\* every function of the notebook, and the other client, on the image key
NotebookKeys == {KeyImg}
NextNotebook ==
  \/ Builds(NotebookKeys, BOOLEAN, BOOLEAN)
  \/ Deletes(BOOLEAN)
  \/ Others(NotebookKeys)
  \/ Downloads(NotebookKeys, BOOLEAN)
  \/ Lists(BOOLEAN)
  \/ Configures(BOOLEAN)
SpecNotebook == Init /\ [][NextNotebook]_vars

----------------------------------------------------------------------------
(* Properties *)

\* s3_delete_bucket was called with delete_objects = True
Purging == calls # <<>> /\ calls[1].api = "ListObjectVersions"

\* the (key, version id) pairs of the delete_object calls issued so far
DeleteCalls == SelectSeq(calls, LAMBDA c : c.api = "DeleteObject")
DeletedPairs == {<<DeleteCalls[i].key, DeleteCalls[i].vid>> : i \in 1..Len(DeleteCalls)}

\* C1: no function of the notebook lets the error of its remote call leave it
\* as an exception: every failure ends as a reported outcome.
C1_NoUnhandledFault == result.status # "raised"

\* C2: when s3_delete_bucket(delete_objects=True) has finished its purge and is
\* about to request the bucket deletion, and no other client has touched the
\* bucket meanwhile, it has issued exactly one delete call for every (key,
\* version id) pair the bucket held when it was listed, and none of those
\* versions and delete markers is left in the bucket.
C2_PurgeDeletesAll ==
  (pc = "bucket" /\ Purging /\ ~interfered) =>
     /\ DeletedPairs = snap
     /\ Len(DeleteCalls) = Cardinality(snap)
     /\ Pairs(store) \cap snap = {}

\* C3: with no other client acting on the bucket and no call lost on the way,
\* the bucket deletion that follows the purge succeeds and the bucket is gone.
C3_PurgeThenDeleteSucceeds ==
  [][(Purging /\ ~interfered /\ DeleteBucketCall(FALSE)) =>
       (result'.status = "ok" /\ ~exists')]_vars

\* the objects and the configuration of the bucket
Bucket == <<exists, versioning, store, pab, policy>>

\* the step that issues delete_bucket and returns from s3_delete_bucket
BucketDeletionStep == pc = "bucket" /\ pc' = "idle"

\* C4: s3_delete_bucket(delete_objects=False) on a bucket that holds a version
\* or a delete marker fails (with the store's BucketNotEmpty, unless the call
\* did not reach the store) and leaves the bucket and its content as they
\* were; and whenever the bucket is destroyed, it held no version and no
\* delete marker.
C4_NonEmptyBucketKept ==
  [][/\ (BucketDeletionStep /\ ~Purging /\ EntryCount(store) > 0) =>
          /\ result'.status = "raised"
          /\ result'.err \in {"BucketNotEmpty", "Transport"}
          /\ DeleteBucketCall(FALSE) => result'.err = "BucketNotEmpty"
          /\ Bucket' = Bucket
     /\ (exists /\ ~exists') => EntryCount(store) = 0]_vars

\* s3_delete_bucket(delete_objects=False) has just been refused on a bucket
\* that holds an object
C4_Witness ==
  /\ result = Outcome("s3_delete_bucket", "raised", "BucketNotEmpty")
  /\ calls = <<Call("DeleteBucket", NoKey, NullVid)>>
  /\ exists
  /\ EntryCount(store) > 0

\* C5: a delete call of the purge that fails does not end the purge: while
\* listed entries remain, the function goes on to their delete calls.
C5_BestEffortPurge ==
  [][(pc \in {"versions", "markers"} /\ Len(todoV) + Len(todoM) > 1
        /\ result'.err # "none") =>
       pc' \in {"versions", "markers"}]_vars

\* the versions (not the delete markers) of a key, as listed
VersionsOfKey(k) == VersionsOf(Listed(store, k))

\* the version ids of a key's entries
VidsOf(es) == {es[i].vid : i \in 1..Len(es)}

\* a successful upload_file_to_s3 of payload p at key k
Uploads(k, p) == upload_file_to_s3(k, p, TRUE, FALSE) /\ exists

\* the original statement of C6's invariant: every key that has versions has
\* exactly one version marked latest.
C6_OneLatestVersion ==
  \A k \in Keys :
    VersionsOfKey(k) # <<>> =>
      Cardinality({i \in 1..Len(VersionsOfKey(k)) : VersionsOfKey(k)[i].IsLatest}) = 1

\* C6 (amended): with versioning Enabled, an upload of payload B to a key whose
\* latest version holds payload A leaves two retained versions with distinct
\* version ids, B's marked latest and A's not; and in every state a key that
\* has versions has exactly one version marked latest, unless its newest entry
\* is a delete marker, and then none of its versions is marked latest.
C6_TwoVersionsLatest ==
  /\ [][\A k \in Keys, p \in Payloads :
         (Uploads(k, p) /\ versioning = "Enabled" /\ HasCurrent(store[k])) =>
            /\ Len(store'[k]) = Len(store[k]) + 1
            /\ store'[k][1].payload = p /\ ~store'[k][1].marker
            /\ store'[k][2] = store[k][1]
            /\ store'[k][1].vid # store'[k][2].vid
            /\ Listed(store', k)[1].IsLatest /\ ~Listed(store', k)[2].IsLatest]_vars
  /\ [](\A k \in Keys :
         VersionsOfKey(k) # <<>> =>
           Cardinality({i \in 1..Len(VersionsOfKey(k)) : VersionsOfKey(k)[i].IsLatest})
             = IF store[k][1].marker THEN 0 ELSE 1)

\* payload B has just been uploaded over payload A with versioning Enabled
C6_Witness ==
  /\ versioning = "Enabled"
  /\ result = Outcome("upload_file_to_s3", "ok", "none")
  /\ calls = <<Call("PutObject", KeyImg, NullVid)>>
  /\ Len(store[KeyImg]) = 2
  /\ store[KeyImg][1].payload = "B" /\ store[KeyImg][2].payload = "A"
  /\ store[KeyImg][1].vid # store[KeyImg][2].vid

\* C7: an upload replaces what the key shows.  In a bucket that never had
\* versioning enabled the key then holds one payload, the uploaded one, and
\* every key of such a bucket holds at most one; with versioning Enabled the
\* upload adds one version in front and all earlier entries of the key stay
\* as they were.  No other key changes.
C7_UploadOverwrites ==
  /\ [][\A k \in Keys, p \in Payloads :
         Uploads(k, p) =>
            /\ versioning = "Unversioned" =>
                  (Len(store'[k]) = 1 /\ store'[k][1].payload = p)
            /\ versioning = "Enabled" =>
                  (/\ Tail(store'[k]) = store[k]
                   /\ store'[k][1].payload = p /\ ~store'[k][1].marker
                   /\ store'[k][1].vid \notin VidsOf(store[k]))
            /\ \A o \in Keys \ {k} : store'[o] = store[o]]_vars
  /\ [](versioning = "Unversioned" => \A k \in Keys : Len(store[k]) <= 1)

\* an upload of payload B has just ended at a key of a bucket that never had
\* versioning enabled, and the key holds that one payload
C7_Witness ==
  /\ versioning = "Unversioned"
  /\ result = Outcome("upload_file_to_s3", "ok", "none")
  /\ calls = <<Call("PutObject", KeyCsv, NullVid)>>
  /\ Len(store[KeyCsv]) = 1
  /\ store[KeyCsv][1].payload = "B"
  /\ uploaded[KeyCsv] = "B"

\* C8: a download of a key that was uploaded, with no upload or delete on the
\* key since, succeeds (when the call reaches the store) and writes the
\* uploaded payload to the local path, which is the payload of the key's
\* latest version however many versions the key has.
C8_DownloadReturnsUpload ==
  [][\A k \in Keys :
       (download_object_from_s3(k, FALSE) /\ exists /\ uploaded[k] # NoFile) =>
          /\ result'.status = "ok"
          /\ localFile' = uploaded[k]
          /\ ~store[k][1].marker /\ localFile' = store[k][1].payload]_vars

\* payload B, uploaded over payload A with versioning Enabled, has just been
\* downloaded
C8_Witness ==
  /\ result = Outcome("download_object_from_s3", "ok", "none")
  /\ calls = <<Call("GetObject", KeyImg, NullVid)>>
  /\ Len(store[KeyImg]) = 2
  /\ store[KeyImg][1].payload = "B" /\ store[KeyImg][2].payload = "A"
  /\ uploaded[KeyImg] = "B"
  /\ localFile = "B"

\* the elements of a sequence
Range(seq) == {seq[i] : i \in 1..Len(seq)}

\* C9: list_objects_in_folder on an existing bucket ends without error and
\* prints exactly the keys of the current objects that start with the prefix,
\* each once, and no key when none matches.
C9_ListsExactlyThePrefix ==
  [][\A x \in Prefixes :
       (list_objects_in_folder(x, FALSE) /\ exists) =>
          /\ result'.status = "ok"
          /\ Range(printed') = {k \in Keys : StartsWith(k, x) /\ HasCurrent(store[k])}
          /\ Len(printed') = Cardinality(Range(printed'))]_vars

\* C10: list_object_versions on an existing bucket produces every retained
\* version and every delete marker whose key starts with the prefix, and
\* nothing else.
C10_ListsVersionsAndMarkers ==
  [][\A x \in Prefixes :
       (list_object_versions(x, FALSE) /\ exists) =>
          {<<e.Key, e.VersionId>> : e \in Range(printed')}
             = {pr \in Pairs(store) : StartsWith(pr[1], x)}]_vars

----------------------------------------------------------------------------
(* Calls and outcomes *)

\* the client call of each function that makes one
ApiOf ==
  [op \in {"create_s3_bucket", "upload_file_to_s3", "download_object_from_s3",
           "s3_public_access_setup", "s3_put_bucket_policy",
           "configure_bucket_versioning", "list_objects_in_folder",
           "list_object_versions"} |->
     CASE op = "create_s3_bucket" -> "CreateBucket"
       [] op = "upload_file_to_s3" -> "PutObject"
       [] op = "download_object_from_s3" -> "GetObject"
       [] op = "s3_public_access_setup" -> "PutPublicAccessBlock"
       [] op = "s3_put_bucket_policy" -> "PutBucketPolicy"
       [] op = "configure_bucket_versioning" -> "PutBucketVersioning"
       [] op = "list_objects_in_folder" -> "ListObjectsV2"
       [] op = "list_object_versions" -> "ListObjectVersions"]

\* the function has returned or raised
Ended == result.status \in {"ok", "reported", "raised"}

\* the original statement of C11: every function of the notebook that has
\* ended, having got as far as its remote call, has issued exactly one.
C11_OneCallPerOperation == (Ended /\ result.err # "LocalIO") => Len(calls) = 1

\* C11 (amended): every function other than s3_delete_bucket issues one
\* remote call, its own, and none when upload_file_to_s3 cannot read the local
\* file; s3_delete_bucket issues the bucket deletion alone without purge, and
\* with purge one listing call, then delete calls, then the bucket deletion
\* as its last call.  A function ends well exactly when its last call did,
\* and s3_delete_bucket ends well only on an accepted bucket deletion.
C11_CallsPerOperation ==
  /\ result.op \in DOMAIN ApiOf =>
        /\ Len(calls) <= 1
        /\ calls = <<>> => result = Outcome("upload_file_to_s3", "reported", "LocalIO")
        /\ calls # <<>> => calls[1].api = ApiOf[result.op]
  /\ result.op = "s3_delete_bucket" =>
        /\ ~Purging => calls \in {<<>>, <<Call("DeleteBucket", NoKey, NullVid)>>}
        /\ \A i \in 2..Len(calls) :
              calls[i].api = "DeleteObject" \/ (i = Len(calls) /\ calls[i].api = "DeleteBucket")
        /\ result.status = "ok" =>
              (calls[Len(calls)].api = "DeleteBucket" /\ ~exists)
  /\ Ended => (result.status = "ok" <=> result.err = "none")

\* s3_delete_bucket has ended well after four remote calls: the listing, two
\* object deletions and the bucket deletion
C11_Witness ==
  /\ result = Outcome("s3_delete_bucket", "ok", "none")
  /\ Len(calls) = 4
  /\ calls[1].api = "ListObjectVersions"
  /\ calls[4].api = "DeleteBucket"

\* C12: create_s3_bucket never ends with an exception; called for a bucket
\* that exists it ends well or with a reported error, and either way the
\* bucket, its versions and delete markers, its versioning status, its public
\* access block and its policy are what they were.
C12_CreateKeepsBucket ==
  [][\A r \in Regions, f \in BOOLEAN :
       create_s3_bucket(r, f) =>
          /\ result'.status \in {"ok", "reported"}
          /\ exists => (Bucket' = Bucket /\ nextVid' = nextVid)]_vars

\* create_s3_bucket has just ended well on a bucket that already held
\* versions and had its versioning, access block and policy set
C12_Witness ==
  /\ result = Outcome("create_s3_bucket", "ok", "none")
  /\ exists
  /\ Len(store[KeyImg]) = 2
  /\ versioning = "Enabled"
  /\ pab = OpenPab
  /\ policy # NoConfig

\* C13: upload_file_to_s3 ends with a reported error when the local file
\* cannot be read, when the call fails on its way or when the bucket does not
\* exist, and the bucket then holds exactly the versions and delete markers it
\* held before.
C13_FailedUploadKeepsBucket ==
  [][\A k \in Keys, p \in Payloads, rd \in BOOLEAN, f \in BOOLEAN :
       (upload_file_to_s3(k, p, rd, f) /\ (~rd \/ f \/ ~exists)) =>
          /\ result'.status = "reported"
          /\ result'.err \in {"LocalIO", "Transport", "NoSuchBucket"}
          /\ store' = store
          /\ exists' = exists]_vars

\* an upload of an unreadable local file has just ended with a reported
\* error on a bucket that holds two versions
C13_Witness ==
  /\ result = Outcome("upload_file_to_s3", "reported", "LocalIO")
  /\ calls = <<>>
  /\ exists
  /\ EntryCount(store) = 2

\* C14: download_object_from_s3 of a key that has no entry in the bucket, or
\* whose latest entry is a delete marker, ends with a reported error (the
\* store's NoSuchKey when the call reaches an existing bucket), never well,
\* and leaves the local file as it was.
C14_MissingKeyReported ==
  [][\A k \in Keys, f \in BOOLEAN :
       (download_object_from_s3(k, f) /\ (store[k] = <<>> \/ store[k][1].marker)) =>
          /\ result'.status = "reported"
          /\ (~f /\ exists) => result'.err = "NoSuchKey"
          /\ localFile' = localFile]_vars

\* a download of a key whose latest entry is a delete marker, behind which a
\* version is retained, has just ended with a reported error
C14_Witness ==
  /\ result = Outcome("download_object_from_s3", "reported", "NoSuchKey")
  /\ calls = <<Call("GetObject", KeyImg, NullVid)>>
  /\ exists
  /\ Len(store[KeyImg]) = 2
  /\ store[KeyImg][1].marker /\ ~store[KeyImg][2].marker

\* the four toggles of a public access block
Toggles == {"BlockPublicAcls", "IgnorePublicAcls", "BlockPublicPolicy",
            "RestrictPublicBuckets"}

\* C15: after a successful s3_public_access_setup each of the four toggles of
\* the bucket has the value supplied for it in this call, whatever the
\* toggles were before; a failed call leaves all four as they were.
C15_AccessBlockReplaced ==
  [][\A c \in PabConfigs, f \in BOOLEAN :
       s3_public_access_setup(c, f) =>
          /\ result'.status = "ok" =>
                (DOMAIN pab' = Toggles /\ \A t \in Toggles : pab'[t] = c[t])
          /\ result'.status # "ok" => pab' = pab]_vars

\* s3_public_access_setup has just opened all four toggles of a bucket,
\* which a new bucket has set
C15_Witness ==
  /\ result = Outcome("s3_public_access_setup", "ok", "none")
  /\ calls = <<Call("PutPublicAccessBlock", NoKey, NullVid)>>
  /\ exists
  /\ \A t \in Toggles : pab[t] = FALSE

----------------------------------------------------------------------------
(* The order of the calls of s3_delete_bucket *)

\* the positions in calls of the calls to api
CallsTo(api) == {i \in 1..Len(calls) : calls[i].api = api}

\* C16: s3_delete_bucket requests the bucket deletion once, as its last call:
\* while entries of the listing remain to be deleted no bucket deletion has
\* been requested, and the request is made only when the delete call of every
\* listed version and delete marker has been issued.  With delete_objects =
\* False the function issues no listing call and no delete call, only the
\* bucket deletion.
C16_BucketDeletionLast ==
  /\ [](result.op = "s3_delete_bucket" =>
          /\ CallsTo("DeleteBucket") \subseteq {Len(calls)}
          /\ pc # "idle" => CallsTo("DeleteBucket") = {}
          /\ CallsTo("DeleteObject") # {} => 1 \in CallsTo("ListObjectVersions"))
  /\ [][/\ BucketDeletionStep =>
             (todoV = <<>> /\ todoM = <<>> /\ CallsTo("DeleteBucket") = {})
        /\ DeleteBucketSkip =>
             (calls' = <<>> /\ pc' = "bucket")
        /\ (BucketDeletionStep /\ calls = <<>>) =>
             calls' = <<Call("DeleteBucket", NoKey, NullVid)>>]_vars

\* s3_delete_bucket has ended after the listing, the delete calls of the
\* objects of two keys and, last, the bucket deletion
C16_Witness ==
  /\ result.op = "s3_delete_bucket"
  /\ pc = "idle"
  /\ CallsTo("ListObjectVersions") = {1}
  /\ CallsTo("DeleteObject") = {2, 3}
  /\ calls[2].key # calls[3].key
  /\ CallsTo("DeleteBucket") = {4}

\* C17: an object that another client uploads while s3_delete_bucket
\* (delete_objects=True) is between its listing and its bucket deletion is
\* not destroyed by the function: it stays in the bucket through the purge,
\* and the bucket deletion, when its request reaches the store, is refused
\* as BucketNotEmpty and leaves the bucket in place.
C17_LateUploadSurvives ==
  /\ [](Purging => late \subseteq Pairs(store))
  /\ [][(Purging /\ late # {} /\ DeleteBucketCall(FALSE)) =>
          /\ result'.err = "BucketNotEmpty"
          /\ exists'
          /\ late \subseteq Pairs(store')]_vars

----------------------------------------------------------------------------
(* The delete calls of the purge *)

\* the listed entries whose delete call is still to come
Remaining == Len(todoV) + Len(todoM)

\* the listed entry the next delete call is for
NextListed == IF pc = "versions" THEN Head(todoV) ELSE Head(todoM)

\* a step of one of the two loops: one delete_object call
DeleteStep == pc \in {"versions", "markers"} /\ calls' # calls

\* number of delete markers in the bucket
MarkerCount(st) ==
  Cardinality({pr \in Pairs(st) :
                 \E i \in 1..Len(st[pr[1]]) :
                    st[pr[1]][i].vid = pr[2] /\ st[pr[1]][i].marker})

\* what C18 says of every delete call but for the change in the number of
\* entries: the call names the key and the version id of the listed entry it
\* is for, a successful one takes that pair and no other out of the bucket
\* and adds no delete marker, each call uses up one listed entry, so the
\* delete calls are at most as many as the listing returned entries, and
\* the loops are left when no listed entry remains.
PurgeByVersionId ==
  /\ [][DeleteStep =>
          /\ calls' = Append(calls, Call("DeleteObject", NextListed.Key,
                                          NextListed.VersionId))
          /\ result'.err = "none" =>
                /\ Pairs(store') = Pairs(store) \ {<<NextListed.Key, NextListed.VersionId>>}
                /\ MarkerCount(store') <= MarkerCount(store)
                /\ Remaining' = Remaining - 1
          /\ Len(DeleteCalls') + Remaining' <= Len(DeleteCalls) + Remaining]_vars
  /\ [][(Idle /\ ~Idle') =>
          (DeleteCalls' = <<>> /\ Remaining' <= Cardinality(Pairs(store)))]_vars
  /\ [](pc \in {"versions", "markers"} <=> Remaining > 0)

\* the original statement of C18: in addition, each successful delete call
\* makes the number of versions and delete markers in the bucket smaller.
C18_EachDeleteShrinks ==
  /\ PurgeByVersionId
  /\ [][(DeleteStep /\ result'.err = "none") =>
          EntryCount(store') < EntryCount(store)]_vars

\* C18 (amended): in addition, a successful delete call never makes the
\* number of versions and delete markers larger, and makes it smaller by one
\* when the entry it names is still in the bucket; an entry that another
\* client has removed since the listing is answered as deleted and nothing
\* changes.
C18_DeleteNeverGrows ==
  /\ PurgeByVersionId
  /\ [][(DeleteStep /\ result'.err = "none") =>
          EntryCount(store') =
            EntryCount(store)
              - (IF <<NextListed.Key, NextListed.VersionId>> \in Pairs(store)
                   THEN 1 ELSE 0)]_vars

\* the purge has deleted the two entries of one key, all that the bucket
\* held, in two delete calls
C18_Witness ==
  /\ pc = "bucket"
  /\ Purging
  /\ ~interfered
  /\ Len(DeleteCalls) = 2
  /\ Cardinality(snap) = 2
  /\ DeleteCalls[1].key = DeleteCalls[2].key
  /\ EntryCount(store) = 0

----------------------------------------------------------------------------
(* The notebook's order: upload, enable versioning, upload again *)

\* key k was uploaded while the bucket was unversioned and again after
\* versioning was enabled: a version with a version id of its own in front
\* of the version with the null version id
NotebookOrder(k) ==
  /\ versioning = "Enabled"
  /\ Len(store[k]) = 2
  /\ ~store[k][1].marker /\ store[k][1].vid # NullVid
  /\ ~store[k][2].marker /\ store[k][2].vid = NullVid

\* the entries under the prefix fit in one page of a listing, as the four
\* entries of the notebook's bucket do in the page of 1000
FitsPage(st, prefix) ==
  Cardinality({pr \in Pairs(st) : StartsWith(pr[1], prefix)}) <= MaxKeys

\* C19: an upload with versioning Enabled to a key uploaded while the bucket
\* was unversioned keeps the first payload as the version with the null
\* version id behind the new version; list_object_versions of a prefix of the
\* key then prints these two versions of the key, the second upload with
\* IsLatest true and the first with IsLatest false; and the purge of
\* s3_delete_bucket, run without another client on a bucket whose entries fit
\* in one page, lists both and leaves none of them (nor anything else it
\* found) in the bucket.
C19_NotebookOrderKeepsBoth ==
  /\ [][\A k \in Keys :
         /\ \A p \in Payloads :
              (/\ versioning = "Enabled"
               /\ Len(store[k]) = 1 /\ ~store[k][1].marker
               /\ store[k][1].vid = NullVid
               /\ Uploads(k, p)) =>
                 (/\ NotebookOrder(k)'
                  /\ store'[k][1].payload = p
                  /\ store'[k][2] = store[k][1])
         /\ \A x \in Prefixes :
              (/\ NotebookOrder(k) /\ StartsWith(k, x) /\ FitsPage(store, x)
               /\ exists /\ list_object_versions(x, FALSE)) =>
                 SelectSeq(printed', LAMBDA e : e.Key = k)
                   = <<[Key |-> k, VersionId |-> store[k][1].vid, IsLatest |-> TRUE],
                       [Key |-> k, VersionId |-> NullVid, IsLatest |-> FALSE]>>
         /\ (/\ NotebookOrder(k) /\ FitsPage(store, <<>>)
             /\ exists /\ DeleteBucketList(FALSE)) =>
                {<<k, store[k][1].vid>>, <<k, NullVid>>}
                   \subseteq {<<e.Key, e.VersionId>> : e \in Range(todoV')}]_vars
  /\ [](/\ pc = "bucket" /\ Purging /\ ~interfered
        /\ Cardinality(snap) <= MaxKeys
        => /\ DeletedPairs = snap
           /\ Pairs(store) \cap snap = {})

\* the purge has listed and deleted the two versions of the image key, the
\* one with the null version id and the one uploaded under versioning
C19_Witness ==
  /\ pc = "bucket"
  /\ Purging
  /\ ~interfered
  /\ versioning = "Enabled"
  /\ \E v \in 1..MaxVid : snap = {<<KeyImg, NullVid>>, <<KeyImg, v>>}
  /\ DeletedPairs = snap
  /\ store[KeyImg] = <<>>

----------------------------------------------------------------------------
(* The functions that only read *)

\* C20: download_object_from_s3, list_objects_in_folder and
\* list_object_versions, whether they end well or not, leave the bucket as it
\* was: its existence, its versions and delete markers, the version ids the
\* store has handed out, its versioning status, its public access block and
\* its policy: a step that changes any of these is not a step of one of
\* the three functions.
C20_ReadsKeepRemoteState ==
  [][\/ (Bucket' = Bucket /\ nextVid' = nextVid)
     \/ ~\E f \in BOOLEAN :
           \/ \E k \in Keys : download_object_from_s3(k, f)
           \/ \E x \in Prefixes : list_objects_in_folder(x, f)
           \/ \E x \in Prefixes : list_object_versions(x, f)]_vars

\* a download has just ended well on a bucket that holds three entries and
\* has its versioning, access block and policy set
C20_Witness ==
  /\ result = Outcome("download_object_from_s3", "ok", "none")
  /\ EntryCount(store) = 3
  /\ versioning = "Enabled"
  /\ pab = OpenPab
  /\ policy # NoConfig

====
